---- MODULE Spec2Model ----
(***************************************************************************)
(* Vital-sign alerting and emergency escalation of the telemedicine        *)
(* backend: PatientMonitoringService.recordVitalSigns and the              *)
(* EmergencyResponseService (create / acknowledge / escalate / resolve,    *)
(* escalation timers).                                                     *)
(*                                                                         *)
(* Every `await` of a handler is a point where other handlers and timer    *)
(* callbacks may run, so a handler is modelled as a sequence of steps, one *)
(* per database operation it awaits; the synchronous JavaScript that runs  *)
(* between two awaits belongs to one step.  A Mongoose save() of a loaded  *)
(* document writes $set for the paths the handler assigned and $push for   *)
(* the elements it pushed; findByIdAndUpdate($push) is one atomic append.  *)
(***************************************************************************)
EXTENDS Integers, Sequences, FiniteSets, TLC

\* ---------------------------------------------------------------- bounds
MaxCalls == 2       \* service calls (create, record, acknowledge, resolve) started in a run
MaxAlerts == 2      \* EmergencyAlert documents in the store
MaxInFlight == 2    \* handlers and timer callbacks suspended at an await at once
MaxFired == 2       \* escalation timers that fire in a run
HeartRateMax == 160 \* largest heart rate submitted to the threshold evaluation
RespiratoryRateMax == 35  \* largest respiratory rate submitted to it
SpO2Min == 80       \* smallest oxygen saturation submitted to it
MaxHistory == 4     \* readings stored for the patient before the one evaluated

\* ------------------------------------------------------------ identities
Patients == {"p1"}
UnknownPatient == "p0"
Users == {"u1", "u2"}
Providers == {"u1"}       \* users registered as verified providers
Resolvers == {"u2"}
NoUser == "none"
Null == -1

\* ------------------------------------------------- Threshold evaluation
\* temperatures are in tenths of a degree Celsius (36.1 -> 361)
alertThresholds ==
  [heartRate |-> [min |-> 60, max |-> 100, critical |-> [min |-> 40, max |-> 150]],
   systolic |-> [min |-> 90, max |-> 140, critical |-> [min |-> 70, max |-> 180]],
   diastolic |-> [min |-> 60, max |-> 90, critical |-> [min |-> 40, max |-> 120]],
   temperature |-> [min |-> 361, max |-> 372, critical |-> [min |-> 350, max |-> 390]],
   oxygenSaturation |-> [min |-> 95, critical |-> [min |-> 90]],
   respiratoryRate |-> [min |-> 12, max |-> 20, critical |-> [min |-> 8, max |-> 30]]]

Absent == [present |-> FALSE, value |-> 0]
Val(v) == [present |-> TRUE, value |-> v]
AbsentBP == [present |-> FALSE, systolic |-> 0, diastolic |-> 0]
BP(s, d) == [present |-> TRUE, systolic |-> s, diastolic |-> d]

\* JavaScript truthiness of `measurements.x?.value`: present and not 0
Truthy(m) == m.present /\ m.value # 0

Alert(type, parameter, severity) ==
  [type |-> type, parameter |-> parameter, severity |-> severity]

\* a slip that reports every value outside 60..100 as critical
heartRateAlerts_criticalOutsideNormal(m) ==
  IF ~Truthy(m.heartRate) THEN <<>>
  ELSE IF m.heartRate.value < alertThresholds.heartRate.min
            \/ m.heartRate.value > alertThresholds.heartRate.max
    THEN <<Alert("critical", "heartRate", "critical")>>
  ELSE <<>>

heartRateAlerts(m) ==
  IF ~Truthy(m.heartRate) THEN <<>>
  ELSE LET hr == m.heartRate.value
           t == alertThresholds.heartRate
       IN IF hr < t.critical.min \/ hr > t.critical.max
            THEN <<Alert("critical", "heartRate", "critical")>>
          ELSE IF hr < t.min \/ hr > t.max
            THEN <<Alert("warning", "heartRate", "medium")>>
          ELSE <<>>

bloodPressureAlerts(m) ==
  IF ~(m.bloodPressure.present /\ m.bloodPressure.systolic # 0
         /\ m.bloodPressure.diastolic # 0) THEN <<>>
  ELSE LET sys == m.bloodPressure.systolic
           dia == m.bloodPressure.diastolic
           ts == alertThresholds.systolic
           td == alertThresholds.diastolic
       IN IF sys < ts.critical.min \/ sys > ts.critical.max
               \/ dia < td.critical.min \/ dia > td.critical.max
            THEN <<Alert("critical", "bloodPressure", "critical")>>
          ELSE <<>>

temperatureAlerts(m) ==
  IF ~Truthy(m.temperature) THEN <<>>
  ELSE LET temp == m.temperature.value
           t == alertThresholds.temperature
       IN IF temp < t.critical.min \/ temp > t.critical.max
            THEN <<Alert("critical", "temperature", "critical")>>
          ELSE IF temp < t.min \/ temp > t.max
            THEN <<Alert("warning", "temperature", "medium")>>
          ELSE <<>>

oxygenSaturationAlerts(m) ==
  IF ~Truthy(m.oxygenSaturation) THEN <<>>
  ELSE LET spo2 == m.oxygenSaturation.value
           t == alertThresholds.oxygenSaturation
       IN IF spo2 < t.critical.min
            THEN <<Alert("critical", "oxygenSaturation", "critical")>>
          ELSE IF spo2 < t.min
            THEN <<Alert("warning", "oxygenSaturation", "medium")>>
          ELSE <<>>

checkVitalSignsAlerts(m) ==
  heartRateAlerts(m) \o bloodPressureAlerts(m) \o temperatureAlerts(m)
    \o oxygenSaturationAlerts(m)

\* a slip that treats any alert as an emergency
isEmergency_anyAlert(found) == found # <<>>

\* alerts.some(alert => alert.severity === 'critical')
isEmergency(found) ==
  \E i \in 1..Len(found) : found[i].severity = "critical"

NoMeasurement ==
  [heartRate |-> Absent, bloodPressure |-> AbsentBP, temperature |-> Absent,
   oxygenSaturation |-> Absent, respiratoryRate |-> Absent]

\* heart rate 45 bpm with temperature 38.9 C
WarningPair == [NoMeasurement EXCEPT !.heartRate = Val(45), !.temperature = Val(389)]

\* the measurement sets submitted in the behaviours of Spec: a normal
\* reading, two warnings, a critical value with a warning, values outside
\* the physical range (oxygen saturation -5, heart rate -1)
Readings ==
  { [NoMeasurement EXCEPT !.heartRate = Val(80)],
    WarningPair,
    [NoMeasurement EXCEPT !.oxygenSaturation = Val(85), !.heartRate = Val(110)],
    [NoMeasurement EXCEPT !.oxygenSaturation = Val(-5)],
    [NoMeasurement EXCEPT !.heartRate = Val(-1)] }

\* the readings submitted to the threshold evaluation alone: every heart
\* rate from 0 to HeartRateMax
HeartRateInputs ==
  {[NoMeasurement EXCEPT !.heartRate = Val(hr)] : hr \in 0..HeartRateMax}

\* pairs of systolic and diastolic values on both sides of every threshold
SystolicValues == {0, 60, 69, 70, 89, 90, 120, 140, 141, 180, 181, 200}
DiastolicValues == {0, 30, 39, 40, 59, 60, 80, 90, 91, 120, 121, 130}

BloodPressureInputs ==
  {[NoMeasurement EXCEPT !.bloodPressure = BP(sys, dia)] :
     sys \in SystolicValues, dia \in DiastolicValues}

\* every respiratory rate from 0 to RespiratoryRateMax
RespiratoryRateInputs ==
  {[NoMeasurement EXCEPT !.respiratoryRate = Val(rr)] : rr \in 0..RespiratoryRateMax}

\* every oxygen saturation from SpO2Min to 100
OxygenSaturationInputs ==
  {[NoMeasurement EXCEPT !.oxygenSaturation = Val(spo2)] : spo2 \in SpO2Min..100}

\* temperatures (tenths of a degree) on both sides of every threshold
TemperatureValues == {340, 349, 350, 360, 361, 370, 372, 373, 389, 390, 391, 400}

TemperatureInputs ==
  {[NoMeasurement EXCEPT !.temperature = Val(temp)] : temp \in TemperatureValues}

\* readings with several parameters at once
CombinedInputs ==
  {[NoMeasurement EXCEPT !.heartRate = Val(hr), !.temperature = Val(temp),
                         !.oxygenSaturation = Val(spo2), !.bloodPressure = BP(sys, 80)] :
     hr \in {30, 45, 80}, temp \in {345, 389, 365}, spo2 \in {85, 93, 98},
     sys \in {60, 120}}

ThresholdInputs ==
  HeartRateInputs \cup BloodPressureInputs \cup RespiratoryRateInputs
    \cup OxygenSaturationInputs \cup TemperatureInputs \cup CombinedInputs

\* the validators of the VitalSigns schema, run by save(): a value below 0,
\* or an oxygen saturation above 100, is outside the physical range
inPhysicalRange(m) ==
  /\ \A f \in {"heartRate", "temperature", "oxygenSaturation", "respiratoryRate"} :
       m[f].present => m[f].value >= 0
  /\ m.oxygenSaturation.present => m.oxygenSaturation.value <= 100
  /\ m.bloodPressure.present =>
       (m.bloodPressure.systolic >= 0 /\ m.bloodPressure.diastolic >= 0)

\* determineOverallStatus(recentVitals, currentMeasurements)
determineOverallStatus(recent, m) ==
  IF \E j \in 1..Len(recent) : \E n \in 1..Len(recent[j].alerts) :
       recent[j].alerts[n].severity = "critical"
    THEN "critical"
  ELSE IF \E j \in 1..Len(recent) : \E n \in 1..Len(recent[j].alerts) :
       recent[j].alerts[n].severity \in {"medium", "high"}
    THEN "concerning"
  ELSE IF isEmergency(checkVitalSignsAlerts(m)) THEN "critical"
  ELSE IF checkVitalSignsAlerts(m) # <<>> THEN "concerning"
  ELSE "good"

\* calculateTrends: overallStatus is 'good' unless more than 2 recent
\* readings of the patient are stored
overallStatus(recent, m) ==
  IF Len(recent) > 2 THEN determineOverallStatus(recent, m) ELSE "good"

\* ------------------------------------------------------ escalation rules
escalationRules ==
  << [timeThreshold |-> 5, targetLevel |-> 2],
     [timeThreshold |-> 15, targetLevel |-> 3],
     [timeThreshold |-> 30, targetLevel |-> 4],
     [timeThreshold |-> 60, targetLevel |-> 5] >>

Levels == {escalationRules[i].targetLevel : i \in 1..Len(escalationRules)}
MaxLevel == 5
timeThreshold(l) ==
  escalationRules[CHOOSE i \in 1..Len(escalationRules) :
                    escalationRules[i].targetLevel = l].timeThreshold

\* the kinds of alert the routes and socket handlers create
CreateKinds ==
  { [alertType |-> "panic_button", severity |-> "critical", priority |-> "immediate"],
    [alertType |-> "geofence_breach", severity |-> "medium", priority |-> "urgent"] }

VARIABLES
  alerts,              \* the EmergencyAlert collection, indexed by _id
  vitals,              \* the VitalSigns collection, indexed by _id
  escalationTimeouts,  \* keys of the service's Map of timeout handles
  timers,              \* per (alert, level): position of the timer and its callback
  calls,               \* frames of the service calls under way or just returned
  nCalls,              \* service calls started so far
  escalationNotices,   \* (alert, level) pairs notifyEscalationTeam ran for
  broadcasts,          \* (event, id) pairs emitted on the socket server
  now,                 \* the clock new Date() reads
  appointments         \* the Appointment collection, indexed by _id

vars == <<alerts, vitals, escalationTimeouts, timers, calls, nCalls, escalationNotices,
          broadcasts, now, appointments>>

AlertIds == 1..MaxAlerts
TimerKeys == AlertIds \X Levels

Event(event, arg) == [event |-> event, arg |-> arg]

\* a call's frame; fields a handler does not use keep these defaults
NoCall ==
  [op |-> "none", pc |-> "done", result |-> "pending", alert |-> 0, vital |-> 0,
   patient |-> UnknownPatient, user |-> NoUser, kind |-> "none",
   severity |-> "none", priority |-> "none", outcome |-> "none",
   emergency |-> FALSE, alerts |-> <<>>, measurements |-> NoMeasurement,
   provider |-> NoUser, scheduledDateTime |-> 0, appointment |-> 0,
   status |-> "none", isPrimary |-> FALSE, schedulingError |-> FALSE, at |-> 0,
   timersArmed |-> FALSE, noneFired |-> FALSE,
   responseTime |-> Null, resolutionTime |-> Null, escalationCount |-> 0]

RunningTimer(pc) == pc \in {"read", "saved"}

\* a frame stays in its slot after the call returned, until a new call
\* takes the slot
Slots == 1..MaxInFlight

InFlight ==
  Cardinality({i \in Slots : calls[i].pc # "done"})
    + Cardinality({k \in TimerKeys : RunningTimer(timers[k])})

FiredCount ==
  Cardinality({k \in TimerKeys : timers[k] \notin {"none", "armed", "cancelled"}})

CanStart == nCalls < MaxCalls /\ InFlight < MaxInFlight

FreeSlot == CHOOSE i \in Slots :
  calls[i].pc = "done" /\ \A j \in Slots : j < i => calls[j].pc # "done"

\* the clock ticks once per service call: a timestamp is the number of
\* calls that started before it was taken
Start(f) ==
  /\ calls' = [calls EXCEPT ![FreeSlot] = f]
  /\ nCalls' = nCalls + 1
  /\ now' = now + 1
  /\ UNCHANGED appointments

\* what stays of a frame once the call has returned
Return(f, result) ==
  [NoCall EXCEPT !.op = f.op, !.result = result, !.alert = f.alert, !.vital = f.vital,
                 !.patient = f.patient, !.user = f.user, !.outcome = f.outcome,
                 !.alerts = f.alerts, !.emergency = f.emergency,
                 !.status = f.status, !.isPrimary = f.isPrimary,
                 !.schedulingError = f.schedulingError,
                 !.timersArmed = f.timersArmed]

\* documents that calls already under way will still insert
PendingAlerts ==
  Cardinality({i \in Slots : calls[i].op = "record" /\ calls[i].pc = "trigger"})

RoomForAlert == Len(alerts) + PendingAlerts < MaxAlerts

Init ==
  /\ alerts = <<>>
  /\ vitals = <<>>
  /\ escalationTimeouts = {}
  /\ timers = [k \in TimerKeys |-> "none"]
  /\ calls = [i \in Slots |-> NoCall]
  /\ nCalls = 0
  /\ escalationNotices = {}
  /\ broadcasts = {}
  /\ now = 0
  /\ appointments = <<>>

\* ------------------------------------------------------------ documents
NoResolution == [resolvedAt |-> Null, resolvedBy |-> NoUser, outcome |-> "none"]
NoMetrics ==
  [responseTime |-> Null, resolutionTime |-> Null, escalationCount |-> Null,
   falseAlarm |-> FALSE]

\* new EmergencyAlert({...}) with the schema defaults: status 'active',
\* escalation.level 1, empty arrays
NewEmergencyAlert(p, kind, firstEvent, vitalId, t) ==
  [patient |-> p, alertType |-> kind.alertType, severity |-> kind.severity,
   priority |-> kind.priority, vitalSigns |-> vitalId,
   status |-> "active", level |-> 1, escalatedAt |-> <<>>,
   acknowledgedBy |-> <<>>, assignedTo |-> NoUser,
   timeline |-> <<firstEvent>>, createdAt |-> t,
   resolution |-> NoResolution, metrics |-> NoMetrics]

\* a slip that writes the event with $set instead of $push
addTimelineEvent_set(docs, id, ev) ==
  [docs EXCEPT ![id].timeline = <<ev>>]

\* EmergencyAlert.findByIdAndUpdate(alertId, {$push: {timeline: ...}})
addTimelineEvent(docs, id, ev) ==
  [docs EXCEPT ![id].timeline = Append(@, ev)]

SetCall(i, f) ==
  calls' = [calls EXCEPT ![i] = f] /\ UNCHANGED <<nCalls, now, appointments>>

\* a slip that leaves the lookup's result unchecked
patientFound_unchecked(p) == TRUE

\* const patient = await Patient.findById(patientId); if (!patient) throw
patientFound(p) == p \in Patients

\* ------------------------------------------- createEmergencyAlert (steps)
\* Patient.findById; new EmergencyAlert(...); await emergencyAlert.save().
\* The Patient collection is never written by these services, so the
\* lookup and the insert are one step.  An unknown patient throws.
createEmergencyAlert(p, kind) ==
  /\ CanStart
  /\ IF ~patientFound(p)
       THEN /\ Start( [NoCall EXCEPT !.op = "create", !.patient = p,
                                         !.result = "error"])
            /\ UNCHANGED alerts
       ELSE /\ RoomForAlert
            /\ alerts' = Append(alerts,
                  NewEmergencyAlert(p, kind, Event("Emergency alert created", NoUser), 0, now))
            /\ Start(
                  [NoCall EXCEPT !.op = "create", !.pc = "notify", !.patient = p,
                                 !.alert = Len(alerts) + 1,
                                 !.severity = kind.severity, !.priority = kind.priority])
  /\ UNCHANGED <<vitals, escalationTimeouts, timers, escalationNotices, broadcasts>>

\* findAvailableProviders returns the ranked providers (possibly none); the
\* first becomes response.assignedTo and the document is saved
notifyResponseTeam(i, primary) ==
  /\ calls[i].op = "create" /\ calls[i].pc = "notify"
  /\ alerts' = IF primary = NoUser THEN alerts
               ELSE [alerts EXCEPT ![calls[i].alert].assignedTo = primary]
  /\ SetCall(i, [calls[i] EXCEPT !.pc =
         IF calls[i].severity = "critical" /\ calls[i].priority = "immediate"
           THEN "services" ELSE "arm"])
  /\ UNCHANGED <<vitals, escalationTimeouts, timers, escalationNotices, broadcasts>>

\* only for severity critical and priority immediate
contactEmergencyServices(i) ==
  /\ calls[i].op = "create" /\ calls[i].pc = "services"
  /\ alerts' = addTimelineEvent(alerts, calls[i].alert,
                  Event("Emergency services contacted", NoUser))
  /\ SetCall(i, [calls[i] EXCEPT !.pc = "arm"])
  /\ UNCHANGED <<vitals, escalationTimeouts, timers, escalationNotices, broadcasts>>

\* io.emit(event, {alertId, ...})
Broadcast(event, id) == broadcasts' = broadcasts \cup {<<event, id>>}

\* a slip that leaves the last rule out of the list
armTimers_lastRuleMissing(tm, a) ==
  [k \in TimerKeys |-> IF k[1] = a /\ k[2] # MaxLevel THEN "armed" ELSE tm[k]]

\* escalationRules.forEach(rule => setTimeout(...)): one timer per rule
armTimers(tm, a) ==
  [k \in TimerKeys |-> IF k[1] = a THEN "armed" ELSE tm[k]]

\* one setTimeout per rule, its handle stored under `${_id}-${targetLevel}`;
\* an exception in the try block (the scheduling substrate is unavailable)
\* is caught and logged, nothing else happens.  broadcastEmergencyAlert
\* follows in the same turn of the event loop.
setupEscalationTimers(i, unavailable) ==
  /\ calls[i].op = "create" /\ calls[i].pc = "arm"
  /\ LET a == calls[i].alert IN
       /\ IF unavailable
            THEN UNCHANGED <<timers, escalationTimeouts>>
            ELSE /\ timers' = armTimers(timers, a)
                 /\ escalationTimeouts' =
                      escalationTimeouts \cup {k \in TimerKeys : timers'[k] = "armed" /\ k[1] = a}
       /\ Broadcast("emergency-alert", a)
  /\ SetCall(i, [calls[i] EXCEPT !.pc = "initiated", !.schedulingError = unavailable])
  /\ UNCHANGED <<alerts, vitals, escalationNotices>>

\* addTimelineEvent('Emergency response initiated'), then the call returns
initiateEmergencyResponse(i) ==
  /\ calls[i].op = "create" /\ calls[i].pc = "initiated"
  /\ alerts' = addTimelineEvent(alerts, calls[i].alert,
                  Event("Emergency response initiated", NoUser))
  /\ SetCall(i, Return(calls[i], "success"))
  /\ UNCHANGED <<vitals, escalationTimeouts, timers, escalationNotices, broadcasts>>

\* ------------------------------------------------------ escalation timers
\* Node runs the callbacks of one alert's timers in the order of their
\* delays; the delays themselves are not measured against `now`
timerDue(a, l) ==
  /\ timers[<<a, l>>] = "armed"
  /\ \A m \in Levels : timeThreshold(m) < timeThreshold(l) => timers[<<a, m>>] # "armed"

\* a slip that leaves the status check out
escalateDropped_noCheck(doc) == FALSE

\* if (!emergencyAlert || emergencyAlert.status === 'resolved') return;
escalateDropped(doc) == doc.status = "resolved"

\* the timer fires and its callback runs escalateAlert up to the answer of
\* await EmergencyAlert.findById(alertId) and the check that follows
escalateAlert_find(a, l) ==
  /\ timerDue(a, l)
  /\ InFlight < MaxInFlight
  /\ timers' = [timers EXCEPT ![<<a, l>>] =
                  IF escalateDropped(alerts[a]) THEN "dropped" ELSE "read"]
  /\ UNCHANGED <<alerts, vitals, escalationTimeouts, calls, nCalls, escalationNotices, broadcasts, now, appointments>>

\* the same, in runs cut after MaxFired timers
escalateAlert(a, l) == FiredCount < MaxFired /\ escalateAlert_find(a, l)

\* a slip that also puts the case back to active
escalatedDoc_reactivates(doc, l, t) ==
  [doc EXCEPT !.level = l, !.escalatedAt = Append(@, t), !.status = "active"]

\* what save() writes: the paths escalateAlert assigned
escalatedDoc(doc, l, t) ==
  [doc EXCEPT !.level = l, !.escalatedAt = Append(@, t)]

\* escalation.level = targetLevel; escalatedAt.push(new Date());
\* await notifyEscalationTeam(...); await emergencyAlert.save()
escalateAlert_save(a, l) ==
  /\ timers[<<a, l>>] = "read"
  /\ escalationNotices' = escalationNotices \cup {<<a, l>>}
  /\ alerts' = [alerts EXCEPT ![a] = escalatedDoc(@, l, now)]
  /\ timers' = [timers EXCEPT ![<<a, l>>] = "saved"]
  /\ UNCHANGED <<vitals, escalationTimeouts, calls, nCalls, broadcasts, now, appointments>>

\* a slip that schedules with setInterval: the timer is due again
callbackEnds_interval(tm, k) == [tm EXCEPT ![k] = "armed"]

\* setTimeout runs its callback once: the timer is spent
callbackEnds(tm, k) == [tm EXCEPT ![k] = "done"]

\* addTimelineEvent(`Alert escalated to level ${targetLevel}`)
escalateAlert_log(a, l) ==
  /\ timers[<<a, l>>] = "saved"
  /\ alerts' = addTimelineEvent(alerts, a, Event("Alert escalated", l))
  /\ timers' = callbackEnds(timers, <<a, l>>)
  /\ UNCHANGED <<vitals, escalationTimeouts, calls, nCalls, escalationNotices, broadcasts, now, appointments>>

\* ObjectId.prototype.toString(): IdWidth hexadecimal digits, whatever the
\* value
IdWidth == 24
HexDigits ==
  <<"0", "1", "2", "3", "4", "5", "6", "7", "8", "9", "a", "b", "c", "d", "e", "f">>

RECURSIVE Pow16(_)
Pow16(n) == IF n = 0 THEN 1 ELSE 16 * Pow16(n - 1)

\* an id printed without leading zeros, in base 1
ObjectIdString_unpadded(a) == [n \in 1..a |-> "1"]

ObjectIdString(a) ==
  [n \in 1..IdWidth |->
     IF IdWidth - n > 3 THEN "0" ELSE HexDigits[((a \div Pow16(IdWidth - n)) % 16) + 1]]

LevelString(l) == HexDigits[l + 1]

\* the Map key `${emergencyAlert._id}-${rule.targetLevel}`
MapKey(k) == ObjectIdString(k[1]) \o <<"-", LevelString(k[2])>>

\* String.prototype.startsWith
startsWith(str, prefix) ==
  Len(prefix) <= Len(str) /\ SubSeq(str, 1, Len(prefix)) = prefix

\* key.startsWith(alertId.toString())
Matched(k, a) == startsWith(MapKey(k), ObjectIdString(a))

\* a slip that deletes the Map entries without clearTimeout
clearTimeouts_deleteOnly(tm, keys, a) == tm

\* a slip that also abandons the callbacks that have started
clearTimeouts_startedToo(tm, keys, a) ==
  [k \in TimerKeys |->
     IF k[1] = a /\ tm[k] \in {"armed", "read", "saved"} THEN "cancelled" ELSE tm[k]]

\* clearTimeout on every Map entry of the alert: a timer that has not fired
\* never will, a callback that has started is not affected
clearTimeouts(tm, keys, a) ==
  [k \in TimerKeys |->
     IF k \in keys /\ Matched(k, a) /\ tm[k] = "armed" THEN "cancelled" ELSE tm[k]]

cancelEscalationTimers(a) ==
  /\ timers' = clearTimeouts(timers, escalationTimeouts, a)
  /\ escalationTimeouts' = {k \in escalationTimeouts : ~Matched(k, a)}

\* bookkeeping for the properties: the alert's four timers are all pending;
\* none of its timers has fired
AllArmed(a) == \A l \in Levels : timers[<<a, l>>] = "armed"
NoneFired(a) == \A l \in Levels : timers[<<a, l>>] \in {"none", "armed", "cancelled"}

Outcomes == {"patient_stable", "false_alarm"}
UnknownAlert == 0

\* ---------------------------------------------------- acknowledgeAlert
\* await EmergencyAlert.findById(alertId): the copy the handler works on.
\* An unknown id throws 'Emergency alert not found'.
ackSetsStatus(status) == status = "active"

\* a slip that cancels the timers on any acknowledgment
ackIsPrimary_anyone(doc, u) == TRUE

\* emergencyAlert.response.assignedTo?.toString() === userId.toString()
ackIsPrimary(doc, u) == doc.assignedTo # NoUser /\ doc.assignedTo = u

acknowledgeAlert(a, u) ==
  /\ CanStart
  /\ Start(
       IF a \notin 1..Len(alerts)
         THEN [NoCall EXCEPT !.op = "acknowledge", !.user = u, !.result = "error"]
         ELSE [NoCall EXCEPT !.op = "acknowledge", !.pc = "save", !.alert = a, !.user = u,
                             !.at = now, !.status = alerts[a].status,
                             !.isPrimary = ackIsPrimary(alerts[a], u),
                             !.timersArmed = AllArmed(a)])
  /\ UNCHANGED <<alerts, vitals, escalationTimeouts, timers, escalationNotices, broadcasts>>

\* a slip that records a user once
pushAck_oncePerUser(list, entry) ==
  IF \E j \in 1..Len(list) : list[j].user = entry.user THEN list
  ELSE Append(list, entry)

\* response.acknowledgedBy.push({...}), written by save() as a $push
pushAck(list, entry) == Append(list, entry)

\* acknowledgedBy.push({user, acknowledgedAt}); status = 'acknowledged' if
\* the copy was 'active'; await emergencyAlert.save()
acknowledgeAlert_save(i) ==
  /\ calls[i].op = "acknowledge" /\ calls[i].pc = "save"
  /\ LET a == calls[i].alert IN
       alerts' = [alerts EXCEPT
         ![a].acknowledgedBy =
            pushAck(@, [user |-> calls[i].user, acknowledgedAt |-> calls[i].at]),
         ![a].status = IF ackSetsStatus(calls[i].status) THEN "acknowledged" ELSE @]
  /\ SetCall(i, [calls[i] EXCEPT !.pc = IF calls[i].isPrimary THEN "cancel" ELSE "log"])
  /\ UNCHANGED <<vitals, escalationTimeouts, timers, escalationNotices, broadcasts>>

\* if (assignedTo === userId) this.cancelEscalationTimers(alertId)
acknowledgeAlert_cancel(i) ==
  /\ calls[i].op = "acknowledge" /\ calls[i].pc = "cancel"
  /\ cancelEscalationTimers(calls[i].alert)
  /\ SetCall(i, [calls[i] EXCEPT !.pc = "log"])
  /\ UNCHANGED <<alerts, vitals, escalationNotices, broadcasts>>

\* addTimelineEvent('Alert acknowledged'); broadcast; return success
acknowledgeAlert_log(i) ==
  /\ calls[i].op = "acknowledge" /\ calls[i].pc = "log"
  /\ alerts' = addTimelineEvent(alerts, calls[i].alert,
                  Event("Alert acknowledged", calls[i].user))
  /\ Broadcast("emergency-alert-update", calls[i].alert)
  /\ SetCall(i, [Return(calls[i], "success") EXCEPT !.noneFired = NoneFired(calls[i].alert)])
  /\ UNCHANGED <<vitals, escalationTimeouts, timers, escalationNotices>>

\* -------------------------------------------------------- resolveAlert
\* a slip that reports 0 when nobody has acknowledged
responseTimeOf_zeroWhenNone(doc) ==
  IF Len(doc.acknowledgedBy) > 0
    THEN doc.acknowledgedBy[1].acknowledgedAt - doc.createdAt
    ELSE 0

\* metrics computed from the copy findById returned
responseTimeOf(doc) ==
  IF Len(doc.acknowledgedBy) > 0
    THEN doc.acknowledgedBy[1].acknowledgedAt - doc.createdAt
    ELSE Null

resolveAlert(a, u, outcome) ==
  /\ CanStart
  /\ Start(
       IF a \notin 1..Len(alerts)
         THEN [NoCall EXCEPT !.op = "resolve", !.user = u, !.result = "error"]
         ELSE [NoCall EXCEPT !.op = "resolve", !.pc = "save", !.alert = a, !.user = u,
                             !.outcome = outcome, !.at = now,
                             !.status = alerts[a].status,
                             !.responseTime = responseTimeOf(alerts[a]),
                             !.resolutionTime = now - alerts[a].createdAt,
                             !.escalationCount = Len(alerts[a].escalatedAt)])
  /\ UNCHANGED <<alerts, vitals, escalationTimeouts, timers, escalationNotices, broadcasts>>

\* status = 'resolved'; resolution = {...}; metrics = {...}; await save()
resolveAlert_save(i) ==
  /\ calls[i].op = "resolve" /\ calls[i].pc = "save"
  /\ LET a == calls[i].alert IN
       alerts' = [alerts EXCEPT
         ![a].status = "resolved",
         ![a].resolution = [resolvedAt |-> calls[i].at, resolvedBy |-> calls[i].user,
                            outcome |-> calls[i].outcome],
         ![a].metrics = [responseTime |-> calls[i].responseTime,
                         resolutionTime |-> calls[i].resolutionTime,
                         escalationCount |-> calls[i].escalationCount,
                         falseAlarm |-> (calls[i].outcome = "false_alarm")]]
  /\ SetCall(i, [calls[i] EXCEPT !.pc = "cancel"])
  /\ UNCHANGED <<vitals, escalationTimeouts, timers, escalationNotices, broadcasts>>

\* this.cancelEscalationTimers(alertId)
resolveAlert_cancel(i) ==
  /\ calls[i].op = "resolve" /\ calls[i].pc = "cancel"
  /\ cancelEscalationTimers(calls[i].alert)
  /\ SetCall(i, [calls[i] EXCEPT !.pc = "log"])
  /\ UNCHANGED <<alerts, vitals, escalationNotices, broadcasts>>

\* addTimelineEvent('Alert resolved'); broadcast; return success
resolveAlert_log(i) ==
  /\ calls[i].op = "resolve" /\ calls[i].pc = "log"
  /\ alerts' = addTimelineEvent(alerts, calls[i].alert,
                  Event("Alert resolved", calls[i].user))
  /\ Broadcast("emergency-alert-update", calls[i].alert)
  /\ SetCall(i, Return(calls[i], "success"))
  /\ UNCHANGED <<vitals, escalationTimeouts, timers, escalationNotices>>

\* ----------------------------------------------------- recordVitalSigns
VitalKind == [alertType |-> "vital_signs", severity |-> "critical", priority |-> "immediate"]

\* VitalSigns.find({patient, createdAt >= now - 24h}).sort({createdAt: -1})
\* .limit(10) over the stored readings: the patient's 10 most recent
\* readings, the most recent first
IsOf(p, v) == v.patient = p

Reverse(seq) == [n \in 1..Len(seq) |-> seq[Len(seq) + 1 - n]]

recentOf(stored, p) ==
  LET mine == SelectSeq(stored, LAMBDA v : IsOf(p, v))
  IN Reverse(IF Len(mine) > 10 THEN SubSeq(mine, Len(mine) - 9, Len(mine)) ELSE mine)

recentVitals(p) == recentOf(vitals, p)

\* recentVitals.map(v => v.measurements.bloodPressure)
\*   .filter(bp => bp?.systolic && bp?.diastolic)
HasBP(v) ==
  /\ v.measurements.bloodPressure.present
  /\ v.measurements.bloodPressure.systolic # 0
  /\ v.measurements.bloodPressure.diastolic # 0

bpReadings(recent) ==
  LET with == SelectSeq(recent, HasBP)
  IN [n \in 1..Len(with) |-> with[n].measurements.bloodPressure]

RECURSIVE SumSystolic(_)
SumSystolic(bps) ==
  IF bps = <<>> THEN 0 ELSE bps[1].systolic + SumSystolic(Tail(bps))

\* calculateBPTrend: slice(0, 3) against slice(-3); both slices have the
\* same length k, so the difference of the means exceeds 10 exactly when
\* the difference of the sums exceeds 10 * k
calculateBPTrend(bps) ==
  IF Len(bps) < 2 THEN "unknown"
  ELSE LET k == IF Len(bps) < 3 THEN Len(bps) ELSE 3
           recent == SubSeq(bps, 1, k)
           older == SubSeq(bps, Len(bps) - k + 1, Len(bps))
           difference == SumSystolic(recent) - SumSystolic(older)
       IN IF difference > 10 * k THEN "worsening"
          ELSE IF difference < -10 * k THEN "improving"
          ELSE "stable"

\* a trend that calculateTrends did not set
NotReported == "none"

\* calculateTrends: trends.bloodPressureTrend is set only when more than 2
\* recent readings are stored and more than 1 of them has a blood pressure
bloodPressureTrend(recent) ==
  IF Len(recent) > 2 /\ Len(bpReadings(recent)) > 1
    THEN calculateBPTrend(bpReadings(recent))
    ELSE NotReported

\* the VitalSigns document recordVitalSigns saves for a reading, given the
\* readings stored before it
VitalDoc(p, m, stored) ==
  [patient |-> p, measurements |-> m, alerts |-> checkVitalSignsAlerts(m),
   isEmergency |-> isEmergency(checkVitalSignsAlerts(m)),
   emergencyContacted |-> FALSE,
   overallStatus |-> overallStatus(recentOf(stored, p), m),
   bloodPressureTrend |-> bloodPressureTrend(recentOf(stored, p))]

\* a slip that catches the rejection of save() and carries on
recordProceeds_saveErrorIgnored(valid) == TRUE

\* await vitalSigns.save() inside the try block: a rejection leaves the
\* handler through catch
recordProceeds(valid) == valid

\* Patient.findById; calculateTrends; checkVitalSignsAlerts; isEmergency;
\* await vitalSigns.save().  A reading without a critical alert returns here.
recordVitalSigns(p, m) ==
  /\ CanStart
  /\ LET found == checkVitalSignsAlerts(m)
         emergency == isEmergency(found)
     IN IF p \notin Patients
          THEN /\ Start( [NoCall EXCEPT !.op = "record", !.patient = p,
                                            !.measurements = m,
                                            !.result = "error"])
               /\ UNCHANGED <<vitals, broadcasts>>
          ELSE IF ~recordProceeds(inPhysicalRange(m))
          THEN /\ Start( [NoCall EXCEPT !.op = "record", !.patient = p,
                                            !.measurements = m,
                                            !.result = "ValidationError"])
               /\ UNCHANGED <<vitals, broadcasts>>
          ELSE /\ emergency => RoomForAlert
               /\ IF emergency THEN UNCHANGED broadcasts
                               ELSE Broadcast("vital-signs-update", Len(vitals) + 1)
               /\ vitals' = Append(vitals, VitalDoc(p, m, vitals))
               /\ Start(
                     [NoCall EXCEPT !.op = "record", !.patient = p,
                                    !.measurements = m,
                                    !.vital = Len(vitals) + 1,
                                    !.alerts = found, !.emergency = emergency,
                                    !.pc = IF emergency THEN "trigger" ELSE "done",
                                    !.result = IF emergency THEN "pending" ELSE "success"])
  /\ UNCHANGED <<alerts, escalationTimeouts, timers, escalationNotices>>

\* new EmergencyAlert({alertType: 'vital_signs', ...}); await save()
triggerEmergencyAlert(i) ==
  /\ calls[i].op = "record" /\ calls[i].pc = "trigger"
  /\ alerts' = Append(alerts,
        NewEmergencyAlert(calls[i].patient, VitalKind,
          Event("Alert triggered by vital signs monitoring", NoUser), calls[i].vital, now))
  /\ SetCall(i, [calls[i] EXCEPT !.pc = "mark", !.alert = Len(alerts) + 1])
  /\ UNCHANGED <<vitals, escalationTimeouts, timers, escalationNotices, broadcasts>>

\* emergencyAlert.save() rejects: the catch block of triggerEmergencyAlert
\* logs the error and returns; recordVitalSigns goes on to
\* broadcastVitalSigns and returns {success: true, emergency: true}
triggerEmergencyAlert_fails(i) ==
  /\ calls[i].op = "record" /\ calls[i].pc = "trigger"
  /\ Broadcast("vital-signs-update", calls[i].vital)
  /\ SetCall(i, Return(calls[i], "success"))
  /\ UNCHANGED <<alerts, vitals, escalationTimeouts, timers, escalationNotices>>

\* vitalSigns.emergencyContacted = true; await vitalSigns.save(); the
\* alert is broadcast and recordVitalSigns returns
triggerEmergencyAlert_mark(i) ==
  /\ calls[i].op = "record" /\ calls[i].pc = "mark"
  /\ vitals' = [vitals EXCEPT ![calls[i].vital].emergencyContacted = TRUE]
  /\ broadcasts' = broadcasts \cup {<<"emergency-alert", calls[i].alert>>,
                                      <<"vital-signs-update", calls[i].vital>>}
  /\ SetCall(i, Return(calls[i], "success"))
  /\ UNCHANGED <<alerts, escalationTimeouts, timers, escalationNotices>>

\* --------------------------------------------------- AppointmentService
\* times are minutes; the provider's working hours of the day
WorkingHours == 0..480

\* the start times clients ask for: four within an hour of each other and
\* one outside the working hours
RequestedTimes == {0, 10, 20, 50, 600}

UnknownAppointment == 0

\* checkProviderAvailability: the provider exists and the time is within
\* the working hours of the day
checkProviderAvailability(prov, t) == prov \in Providers /\ t \in WorkingHours

\* checkAppointmentConflicts: Appointment.find({provider, scheduledDateTime
\* from 15 minutes before to 45 minutes after, status in [...]}).length > 0
checkAppointmentConflicts(docs, prov, t) ==
  \E n \in 1..Len(docs) :
    /\ docs[n].provider = prov
    /\ docs[n].scheduledDateTime >= t - 15
    /\ docs[n].scheduledDateTime <= t + 45
    /\ docs[n].status \in {"scheduled", "confirmed", "in_progress"}

\* Patient.findById, Provider.findById, checkProviderAvailability: each
\* failure throws
createAppointment(pat, prov, t) ==
  /\ CanStart
  /\ Start(
       IF pat \notin Patients \/ prov \notin Providers
            \/ ~checkProviderAvailability(prov, t)
         THEN [NoCall EXCEPT !.op = "book", !.patient = pat, !.provider = prov,
                             !.scheduledDateTime = t, !.result = "error"]
         ELSE [NoCall EXCEPT !.op = "book", !.pc = "conflicts", !.patient = pat,
                             !.provider = prov, !.scheduledDateTime = t])
  /\ UNCHANGED <<alerts, vitals, escalationTimeouts, timers, escalationNotices, broadcasts>>

\* await this.checkAppointmentConflicts(...): 'Time slot is already booked'
createAppointment_conflicts(i) ==
  /\ calls[i].op = "book" /\ calls[i].pc = "conflicts"
  /\ SetCall(i, IF checkAppointmentConflicts(appointments, calls[i].provider,
                                              calls[i].scheduledDateTime)
                  THEN [calls[i] EXCEPT !.pc = "done", !.result = "error"]
                  ELSE [calls[i] EXCEPT !.pc = "save"])
  /\ UNCHANGED <<alerts, vitals, escalationTimeouts, timers, escalationNotices, broadcasts>>

\* new Appointment({..., status: 'scheduled'}); await appointment.save()
createAppointment_save(i) ==
  /\ calls[i].op = "book" /\ calls[i].pc = "save"
  /\ appointments' = Append(appointments,
        [patient |-> calls[i].patient, provider |-> calls[i].provider,
         scheduledDateTime |-> calls[i].scheduledDateTime, status |-> "scheduled"])
  /\ calls' = [calls EXCEPT ![i] = [calls[i] EXCEPT !.pc = "done", !.result = "success",
                                                    !.appointment = Len(appointments) + 1]]
  /\ UNCHANGED <<alerts, vitals, escalationTimeouts, timers, escalationNotices, broadcasts,
                 nCalls, now>>

\* Appointment.findById; a completed or cancelled appointment cannot be
\* cancelled
cancelAppointment(a) ==
  /\ CanStart
  /\ Start(
       IF a \notin 1..Len(appointments) \/ appointments[a].status \in {"completed", "cancelled"}
         THEN [NoCall EXCEPT !.op = "cancelAppointment", !.result = "error"]
         ELSE [NoCall EXCEPT !.op = "cancelAppointment", !.pc = "save", !.appointment = a])
  /\ UNCHANGED <<alerts, vitals, escalationTimeouts, timers, escalationNotices, broadcasts>>

\* appointment.status = 'cancelled'; await appointment.save()
cancelAppointment_save(i) ==
  /\ calls[i].op = "cancelAppointment" /\ calls[i].pc = "save"
  /\ appointments' = [appointments EXCEPT ![calls[i].appointment].status = "cancelled"]
  /\ calls' = [calls EXCEPT ![i] = [calls[i] EXCEPT !.pc = "done", !.result = "success"]]
  /\ UNCHANGED <<alerts, vitals, escalationTimeouts, timers, escalationNotices, broadcasts,
                 nCalls, now>>

\* the behaviours of the appointment service alone
NextAppointments ==
  \/ \E pat \in Patients \cup {UnknownPatient}, prov \in Providers \cup {NoUser},
        t \in RequestedTimes : createAppointment(pat, prov, t)
  \/ \E i \in Slots : createAppointment_conflicts(i)
  \/ \E i \in Slots : createAppointment_save(i)
  \/ \E a \in 1..MaxCalls \cup {UnknownAppointment} : cancelAppointment(a)
  \/ \E i \in Slots : cancelAppointment_save(i)

AppointmentSpec == Init /\ [][NextAppointments]_vars

\* ------------------------------------------------------ getActiveAlerts
\* a filter that is not given
NoFilter == "none"

Filters ==
  [severity : {NoFilter, "critical", "medium"},
   priority : {NoFilter, "immediate", "urgent"},
   assignedTo : {NoUser} \cup Providers]

\* the ids of the documents EmergencyAlert.find(query) returns: status in
\* ['active', 'acknowledged', 'responding'] and every filter that is given
getActiveAlerts(filters) ==
  {a \in 1..Len(alerts) :
     /\ alerts[a].status \in {"active", "acknowledged", "responding"}
     /\ filters.severity # NoFilter => alerts[a].severity = filters.severity
     /\ filters.priority # NoFilter => alerts[a].priority = filters.priority
     /\ filters.assignedTo # NoUser => alerts[a].assignedTo = filters.assignedTo}

\* ---------------------------------------------------------------- Next
\* a client or a device calls a service
Calls ==
  \/ \E p \in Patients \cup {UnknownPatient}, kind \in CreateKinds :
        createEmergencyAlert(p, kind)
  \/ \E a \in AlertIds \cup {UnknownAlert}, u \in Users : acknowledgeAlert(a, u)
  \/ \E a \in AlertIds \cup {UnknownAlert}, u \in Resolvers, o \in Outcomes : resolveAlert(a, u, o)
  \/ \E p \in Patients \cup {UnknownPatient}, m \in Readings : recordVitalSigns(p, m)

\* a handler or a timer callback resumes after an await
Resumes ==
  \/ \E i \in Slots, primary \in Providers \cup {NoUser} : notifyResponseTeam(i, primary)
  \/ \E i \in Slots : contactEmergencyServices(i)
  \/ \E i \in Slots, unavailable \in BOOLEAN : setupEscalationTimers(i, unavailable)
  \/ \E i \in Slots : initiateEmergencyResponse(i)
  \/ \E k \in TimerKeys : escalateAlert_save(k[1], k[2])
  \/ \E k \in TimerKeys : escalateAlert_log(k[1], k[2])
  \/ \E i \in Slots : acknowledgeAlert_save(i)
  \/ \E i \in Slots : acknowledgeAlert_cancel(i)
  \/ \E i \in Slots : acknowledgeAlert_log(i)
  \/ \E i \in Slots : resolveAlert_save(i)
  \/ \E i \in Slots : resolveAlert_cancel(i)
  \/ \E i \in Slots : resolveAlert_log(i)
  \/ \E i \in Slots : triggerEmergencyAlert(i)
  \/ \E i \in Slots : triggerEmergencyAlert_fails(i)
  \/ \E i \in Slots : triggerEmergencyAlert_mark(i)

Next ==
  \/ Calls
  \/ Resumes
  \/ \E k \in TimerKeys : escalateAlert(k[1], k[2])

Spec == Init /\ [][Next]_vars

\* ------------------------------------------------ a case already created
\* the states one createEmergencyAlert call, run alone, leaves behind
CreatedCase(kind, primary) ==
  LET immediate == kind.severity = "critical" /\ kind.priority = "immediate"
      doc == NewEmergencyAlert("p1", kind, Event("Emergency alert created", NoUser), 0, 0)
  IN [doc EXCEPT
        !.assignedTo = primary,
        !.timeline = @ \o (IF immediate
                             THEN <<Event("Emergency services contacted", NoUser)>>
                             ELSE <<>>)
                       \o <<Event("Emergency response initiated", NoUser)>>]

InitCase ==
  \E kind \in CreateKinds, primary \in Providers \cup {NoUser}, unavailable \in BOOLEAN :
    /\ alerts = <<CreatedCase(kind, primary)>>
    /\ vitals = <<>>
    /\ escalationTimeouts = (IF unavailable THEN {} ELSE {k \in TimerKeys : k[1] = 1})
    /\ timers = [k \in TimerKeys |->
                   IF k[1] = 1 /\ ~unavailable THEN "armed" ELSE "none"]
    /\ calls = [i \in Slots |-> NoCall]
    /\ nCalls = 0
    /\ escalationNotices = {}
    /\ broadcasts = {<<"emergency-alert", 1>>}
    /\ now = 1
    /\ appointments = <<>>

SpecCase == InitCase /\ [][Next]_vars


\* ------------------------------------------------ every timer that is due
\* the event loop runs every continuation whose await has settled and
\* every timer that is due; clients are not obliged to call
Scheduled == Resumes \/ \E k \in TimerKeys : escalateAlert_find(k[1], k[2])

NextFair == Calls \/ Scheduled

FairSpec == Init /\ [][NextFair]_vars /\ WF_vars(Scheduled)

\* ------------------------------------------------ one reading evaluated
\* the behaviours in which a device submits a single reading for a known
\* patient and recordVitalSigns runs to its end
SubmitReading ==
  nCalls = 0 /\ \E m \in ThresholdInputs : recordVitalSigns("p1", m)

NextEval ==
  \/ SubmitReading
  \/ \E i \in Slots : triggerEmergencyAlert(i)
  \/ \E i \in Slots : triggerEmergencyAlert_fails(i)
  \/ \E i \in Slots : triggerEmergencyAlert_mark(i)

\* the readings a patient's history is made of: a normal one, and one with
\* a higher systolic value and a heart-rate warning
HistoryReadings ==
  { [NoMeasurement EXCEPT !.bloodPressure = BP(100, 80)],
    [NoMeasurement EXCEPT !.bloodPressure = BP(140, 80), !.heartRate = Val(110)] }

RECURSIVE SeqsUpTo(_)
SeqsUpTo(n) ==
  IF n = 0 THEN {<<>>}
  ELSE SeqsUpTo(n - 1)
         \cup {Append(h, m) : h \in {g \in SeqsUpTo(n - 1) : Len(g) = n - 1},
                               m \in HistoryReadings}

Histories == SeqsUpTo(MaxHistory)

\* what recordVitalSigns, called once per reading, has stored
RECURSIVE StoreAll(_)
StoreAll(ms) ==
  IF ms = <<>> THEN <<>>
  ELSE LET before == StoreAll(SubSeq(ms, 1, Len(ms) - 1))
       IN Append(before, VitalDoc("p1", ms[Len(ms)], before))

\* the patient has a history of up to MaxHistory readings, none of them
\* critical, recorded within the last 24 hours
InitEval ==
  \E h \in Histories :
    /\ alerts = <<>>
    /\ vitals = StoreAll(h)
    /\ escalationTimeouts = {}
    /\ timers = [k \in TimerKeys |-> "none"]
    /\ calls = [i \in Slots |-> NoCall]
    /\ nCalls = 0
    /\ escalationNotices = {}
    /\ broadcasts = {<<"vital-signs-update", v>> : v \in 1..Len(h)}
    /\ now = 0
    /\ appointments = <<>>

EvalSpec == InitEval /\ [][NextEval]_vars

\* ------------------------------------------------ one request at a time
\* the behaviours in which a call or a timer callback starts only when no
\* other is under way
Idle == InFlight = 0

SerialCalls == Idle /\ Calls

SerialTimers == Idle /\ \E k \in TimerKeys : escalateAlert(k[1], k[2])

NextSerial == SerialCalls \/ Resumes \/ SerialTimers

SerialSpec == InitCase /\ [][NextSerial]_vars

\* ------------------------------------------------------------ properties
OpenStatuses == {"active", "acknowledged", "responding"}
TerminalStatuses == {"resolved", "false_alarm"}

CasesOf(p) == {a \in 1..Len(alerts) : alerts[a].patient = p}
OpenCasesOf(p) == {a \in CasesOf(p) : alerts[a].status \in OpenStatuses}

EscalationEvents(doc) ==
  {j \in 1..Len(doc.timeline) : doc.timeline[j].event = "Alert escalated"}

\* what an escalation changes in a case
EscalationState(a) ==
  <<alerts[a].level, alerts[a].escalatedAt, EscalationEvents(alerts[a]),
    {k \in escalationNotices : k[1] = a}>>

Unescalated(a) ==
  EscalationState(a) = <<1, <<>>, {}, {}>>

AllWarning(found) ==
  found # <<>> /\ \A j \in 1..Len(found) : found[j].type = "warning"

\* C1: each patient has at most one emergency case whose status is active,
\* acknowledged or responding, in every reachable state.
C1_SingleOpenCase ==
  \A p \in Patients : Cardinality(OpenCasesOf(p)) <= 1

\* C2: once two concurrent recordVitalSigns calls with critical measurements
\* for the same patient, started with no case in the store, have both
\* returned, exactly one emergency case exists for that patient.
C2_ConcurrentCriticalOneCase ==
  ( /\ nCalls = 2
    /\ \A i \in {1, 2} : /\ calls[i].op = "record" /\ calls[i].pc = "done"
                          /\ calls[i].emergency
                          /\ calls[i].patient = calls[1].patient )
  => Cardinality(CasesOf(calls[1].patient)) = 1

\* C3: every emergency case that is never acknowledged by its assigned
\* primary responder and never resolved eventually reaches escalation
\* level 5, whichever path created it.
AcknowledgedByPrimary(doc) ==
  \E j \in 1..Len(doc.acknowledgedBy) : doc.acknowledgedBy[j].user = doc.assignedTo

C3_Settled(a) ==
  /\ a <= Len(alerts)
  /\ \/ alerts[a].level = MaxLevel
     \/ alerts[a].resolution.resolvedAt # Null
     \/ AcknowledgedByPrimary(alerts[a])

C3_EventuallyMaxLevel ==
  \A a \in AlertIds : (a <= Len(alerts)) ~> C3_Settled(a)

\* C4: when acknowledgeAlert by the assigned primary responder, called on a
\* case whose four timers are armed, returns before any of them has fired,
\* the case is not escalated afterwards: level 1, escalatedAt empty, no
\* escalation event in the timeline, no escalation notice.
EarlyPrimaryAck(i) ==
  /\ calls[i].op = "acknowledge" /\ calls[i].pc = "done" /\ calls[i].result = "success"
  /\ calls[i].isPrimary /\ calls[i].timersArmed /\ calls[i].noneFired

C5_EscalateOnTerminalDropped ==
  [][\A k \in TimerKeys :
       /\ ( /\ timers[k] = "armed" /\ timers'[k] \notin {"armed", "cancelled"}
            /\ alerts[k[1]].status \in TerminalStatuses )
          => /\ timers'[k] = "dropped"
             /\ alerts' = alerts
             /\ escalationNotices' = escalationNotices
       /\ timers[k] = "dropped" => timers'[k] = "dropped"]_vars

C5_Witness ==
  \E k \in TimerKeys : /\ timers[k] = "dropped"
                        /\ alerts[k[1]].status \in TerminalStatuses
                        /\ Unescalated(k[1])

\* C6: once cancelEscalationTimers for a case has returned (in resolveAlert,
\* or in acknowledgeAlert by the primary responder), no step changes the
\* case's level, escalatedAt, escalation events or escalation notices.
CancelReturned(a) ==
  \E i \in Slots :
    /\ calls[i].alert = a /\ calls[i].pc \in {"log", "done"}
    /\ \/ calls[i].op = "resolve"
       \/ calls[i].op = "acknowledge" /\ calls[i].isPrimary

C6_NoEscalationAfterCancel ==
  [][\A a \in 1..Len(alerts) :
       CancelReturned(a) => EscalationState(a)' = EscalationState(a)]_vars

\* C7: resolveAlert on a case that is already resolved or false_alarm
\* returns a StateConflictError and no step of it changes the case.
C7_ResolveTerminalConflict ==
  [][\A i \in Slots :
       ( /\ calls[i].op = "resolve" /\ calls[i].pc # "done"
         /\ calls[i].status \in TerminalStatuses
         /\ calls'[i] # calls[i] )
       => /\ alerts'[calls[i].alert] = alerts[calls[i].alert]
          /\ calls'[i].pc = "done" => calls'[i].result = "StateConflictError"]_vars

\* C8: acknowledgeAlert on a case that is resolved or false_alarm returns a
\* StateConflictError and no step of it changes the case.
C8_AcknowledgeTerminalConflict ==
  [][\A i \in Slots :
       ( /\ calls[i].op = "acknowledge" /\ calls[i].pc # "done"
         /\ calls[i].status \in TerminalStatuses
         /\ calls'[i] # calls[i] )
       => /\ alerts'[calls[i].alert] = alerts[calls[i].alert]
          /\ calls'[i].pc = "done" => calls'[i].result = "StateConflictError"]_vars

\* C9: a recordVitalSigns call whose alerts are all of warning level writes
\* no emergency case (the collection, timelines included, is the same
\* before and after each of its steps) and returns the warning alerts.
C9_WarningsCreateNoCase ==
  [][\A i \in Slots :
       ( /\ calls'[i] # calls[i] /\ calls'[i].op = "record"
         /\ AllWarning(calls'[i].alerts) )
       => /\ alerts' = alerts
          /\ calls'[i].pc = "done" /\ calls'[i].result = "success"
          /\ ~calls'[i].emergency /\ calls'[i].alert = 0]_vars

C9_Witness ==
  \E i \in Slots : /\ calls[i].op = "record" /\ calls[i].pc = "done"
                    /\ calls[i].result = "success"
                    /\ AllWarning(calls[i].alerts)
                    /\ vitals[calls[i].vital].alerts = calls[i].alerts

\* C10: when arming the timers failed, createEmergencyAlert still succeeds
\* and the case it returns is at the maximum level 5.
C10_SchedulingFailsOpen ==
  \A i \in Slots :
    (calls[i].op = "create" /\ calls[i].pc = "done" /\ calls[i].schedulingError)
    => /\ calls[i].result = "success"
       /\ alerts[calls[i].alert].level = MaxLevel

\* C11: each (case, level) escalation is delivered at most once: a timer
\* that has fired is never due again, escalatedAt holds at most one entry
\* per level whose callback saved, and the timeline at most one escalation
\* event per level.
OncePerLevel(a) ==
  /\ Len(alerts[a].escalatedAt)
       <= Cardinality({l \in Levels : timers[<<a, l>>] \in {"saved", "done"}})
  /\ \A l \in Levels :
       Cardinality({j \in 1..Len(alerts[a].timeline) :
                      alerts[a].timeline[j] = Event("Alert escalated", l)}) <= 1

C11_EscalationAtMostOnce ==
  [][/\ \A k \in TimerKeys :
          timers[k] \notin {"none", "armed"} => timers'[k] # "armed"
     /\ \A a \in 1..Len(alerts') : OncePerLevel(a)']_vars

C11_Witness ==
  \E a \in 1..Len(alerts) :
    /\ Len(alerts[a].escalatedAt) = 2
    /\ timers[<<a, 2>>] = "done" /\ timers[<<a, 3>>] = "done"

\* C12: a case's escalation level never decreases and stays within 1..5:
\* the save of escalateAlert(case, L) leaves the level at the larger of the
\* previous level and L, in whatever order the callbacks complete.
Max(x, y) == IF x >= y THEN x ELSE y

C12_LevelOnlyIncreases ==
  [][\A a \in 1..Len(alerts) :
       /\ alerts'[a].level \in 1..MaxLevel
       /\ alerts'[a].level >= alerts[a].level
       /\ \A l \in Levels :
            (timers[<<a, l>>] = "read" /\ timers'[<<a, l>>] = "saved")
            => alerts'[a].level = Max(alerts[a].level, l)]_vars

\* C13: a case that createEmergencyAlert returned with success, the timers
\* having been armed, is active at level 1, its timeline starts with the
\* case-created event, and the service holds exactly one pending timer per
\* escalation rule for it, for as long as nobody has acknowledged or
\* resolved it and none of its timers has fired.
CreatedAndUntouched(i) ==
  /\ calls[i].op = "create" /\ calls[i].pc = "done" /\ calls[i].result = "success"
  /\ ~calls[i].schedulingError
  /\ alerts[calls[i].alert].acknowledgedBy = <<>>
  /\ alerts[calls[i].alert].resolution.resolvedAt = Null
  /\ NoneFired(calls[i].alert)

C13_CreatedCaseArmed ==
  \A i \in Slots :
    CreatedAndUntouched(i) =>
      LET a == calls[i].alert IN
        /\ alerts[a].status = "active" /\ alerts[a].level = 1
        /\ alerts[a].timeline[1].event = "Emergency alert created"
        /\ AllArmed(a)
        /\ {k \in escalationTimeouts : k[1] = a} = {a} \X Levels

C13_Witness ==
  \E i \in Slots : CreatedAndUntouched(i) /\ AllArmed(calls[i].alert)

\* C14: createEmergencyAlert for a patient that does not exist fails with
\* an error and changes nothing: no case, no timer, no Map entry, no notice
\* and no broadcast.
C14_UnknownPatientNoChange ==
  [][\A i \in Slots :
       ( /\ calls'[i] # calls[i] /\ calls'[i].op = "create"
         /\ calls'[i].patient \notin Patients )
       => /\ calls'[i].pc = "done" /\ calls'[i].result = "error"
          /\ UNCHANGED <<alerts, vitals, timers, escalationTimeouts,
                         escalationNotices, broadcasts>>]_vars

C14_Witness ==
  \E i \in Slots : /\ calls[i].op = "create" /\ calls[i].result = "error"
                    /\ calls[i].patient = UnknownPatient

\* C15: the save of an acknowledgeAlert call on an open case appends exactly
\* one entry (user, timestamp) at the end of the acknowledgment list, also
\* for a user already in it, and sets the status to acknowledged if and
\* only if it was active; no other step of the call changes the list or
\* the status.
AckStep(i) ==
  /\ calls[i].op = "acknowledge" /\ calls[i].pc # "done" /\ calls'[i] # calls[i]

C15_AckAppendsOne ==
  [][\A i \in Slots :
       (AckStep(i) /\ alerts[calls[i].alert].status \in OpenStatuses) =>
         LET before == alerts[calls[i].alert]
             after == alerts'[calls[i].alert]
         IN IF calls[i].pc = "save"
              THEN /\ after.acknowledgedBy =
                        Append(before.acknowledgedBy,
                               [user |-> calls[i].user, acknowledgedAt |-> calls[i].at])
                   /\ after.status =
                        (IF before.status = "active" THEN "acknowledged" ELSE before.status)
              ELSE /\ after.acknowledgedBy = before.acknowledgedBy
                   /\ after.status = before.status]_vars

C15_Witness ==
  \E a \in 1..Len(alerts) :
    /\ Len(alerts[a].acknowledgedBy) = 2
    /\ alerts[a].acknowledgedBy[1].user = alerts[a].acknowledgedBy[2].user
    /\ alerts[a].status = "acknowledged"

\* C16: no step of an acknowledgeAlert call by a user who is not the
\* case's assigned primary responder (another user, or any user when nobody
\* is assigned) changes a timer or a Map entry of the case.
TimersOf(a) == [l \in Levels |-> timers[<<a, l>>]]
KeysOf(a) == {k \in escalationTimeouts : k[1] = a}

C16_OnlyPrimaryAckCancels ==
  [][\A i \in Slots :
       (AckStep(i) /\ alerts[calls[i].alert].assignedTo # calls[i].user) =>
         /\ TimersOf(calls[i].alert)' = TimersOf(calls[i].alert)
         /\ KeysOf(calls[i].alert)' = KeysOf(calls[i].alert)]_vars

C16_Witness ==
  \E i \in Slots :
    /\ calls[i].op = "acknowledge" /\ calls[i].pc = "done" /\ calls[i].result = "success"
    /\ alerts[calls[i].alert].assignedTo \in Providers
    /\ alerts[calls[i].alert].assignedTo # calls[i].user
    /\ AllArmed(calls[i].alert)
    /\ KeysOf(calls[i].alert) = {calls[i].alert} \X Levels

\* C17: the save of resolveAlert on an open case leaves the status
\* false_alarm when the outcome is false_alarm and resolved otherwise.
C17_FalseAlarmStatus ==
  [][\A i \in Slots :
       ( /\ calls[i].op = "resolve" /\ calls[i].pc = "save" /\ calls'[i] # calls[i]
         /\ alerts[calls[i].alert].status \in OpenStatuses )
       => alerts'[calls[i].alert].status =
            (IF calls[i].outcome = "false_alarm" THEN "false_alarm" ELSE "resolved")]_vars

ResolveCompleted(doc) ==
  \E j \in 1..Len(doc.timeline) : doc.timeline[j].event = "Alert resolved"

C19_ResolutionEventLast ==
  \A a \in 1..Len(alerts) :
    ResolveCompleted(alerts[a])
    => alerts[a].timeline[Len(alerts[a].timeline)].event = "Alert resolved"

\* C20: a step that runs cancelEscalationTimers never fails, leaves a state
\* that a second cancellation would not change, changes nothing when the
\* case has no Map entry, and alters neither a recorded escalation nor a
\* callback that has started.
CancelStep(i) ==
  /\ calls[i].pc = "cancel" /\ calls'[i] # calls[i]

C20_CancelIdempotentTotal ==
  [][\A i \in Slots :
       CancelStep(i) =>
         LET a == calls[i].alert IN
           /\ calls'[i].pc = "log"
           /\ clearTimeouts(timers', escalationTimeouts', a) = timers'
           /\ KeysOf(a)' = {}
           /\ KeysOf(a) = {} =>
                 (timers' = timers /\ escalationTimeouts' = escalationTimeouts)
           /\ EscalationState(a)' = EscalationState(a)
           /\ \A k \in TimerKeys : timers[k] # "armed" => timers'[k] = timers[k]]_vars

C20_Witness ==
  \E i, j \in Slots :
    /\ calls[i].op = "acknowledge" /\ calls[i].pc = "done" /\ calls[i].isPrimary
    /\ calls[j].op = "resolve" /\ calls[j].pc = "done" /\ calls[j].alert = calls[i].alert
    /\ KeysOf(calls[i].alert) = {}
    /\ \E l \in Levels : timers[<<calls[i].alert, l>>] = "cancelled"

\* C21: the timeline of every case is append-only: every step, of any
\* handler or timer callback in any interleaving, leaves each case in the
\* store and its timeline a prefix of the timeline after the step.
IsPrefix(s, t) == Len(s) <= Len(t) /\ SubSeq(t, 1, Len(s)) = s

C21_TimelineAppendOnly ==
  [][/\ Len(alerts') >= Len(alerts)
     /\ \A a \in 1..Len(alerts) :
          IsPrefix(alerts[a].timeline, alerts'[a].timeline)]_vars

HasEvent(doc, e) == \E j \in 1..Len(doc.timeline) : doc.timeline[j].event = e

C21_Witness ==
  \E a \in 1..Len(alerts) :
    /\ HasEvent(alerts[a], "Alert acknowledged")
    /\ HasEvent(alerts[a], "Alert escalated")
    /\ HasEvent(alerts[a], "Alert resolved")
    /\ alerts[a].status = "resolved"

\* C22 as stated: when a reading of heart rate 45 bpm with temperature
\* 38.9 C has been recorded for a patient with no other case, exactly one
\* case references the reading, its severity is critical, and the
\* reading's overall status is critical.
CasesFrom(v) == {a \in 1..Len(alerts) : alerts[a].vitalSigns = v}

C22_WarningPairCreatesCriticalCase ==
  \A i \in Slots :
    ( /\ calls[i].op = "record" /\ calls[i].pc = "done"
      /\ calls[i].result = "success"
      /\ vitals[calls[i].vital].measurements = WarningPair
      /\ CasesOf(calls[i].patient) \subseteq CasesFrom(calls[i].vital) )
    => /\ Cardinality(CasesFrom(calls[i].vital)) = 1
       /\ \A a \in CasesFrom(calls[i].vital) : alerts[a].severity = "critical"
       /\ vitals[calls[i].vital].overallStatus = "critical"

\* C22 amended: a stored reading of heart rate 45 bpm with temperature
\* 38.9 C carries exactly two alerts, a heart-rate warning and a temperature
\* warning, is not an emergency, has no case referencing it, and its
\* overall status is not critical when the patient had at most two earlier
\* readings.
EarlierOf(v) == {w \in 1..(v - 1) : vitals[w].patient = vitals[v].patient}

C22_WarningPairTwoWarnings ==
  \A v \in 1..Len(vitals) :
    vitals[v].measurements = WarningPair
    => /\ vitals[v].alerts = << Alert("warning", "heartRate", "medium"),
                                Alert("warning", "temperature", "medium") >>
       /\ ~vitals[v].isEmergency
       /\ CasesFrom(v) = {}
       /\ Cardinality(EarlierOf(v)) <= 2 => vitals[v].overallStatus # "critical"

C22_Witness ==
  \E i \in Slots :
    /\ calls[i].op = "record" /\ calls[i].pc = "done" /\ calls[i].result = "success"
    /\ vitals[calls[i].vital].measurements = WarningPair
    /\ alerts = <<>>
    /\ <<"vital-signs-update", calls[i].vital>> \in broadcasts

\* C23: a reading with a value outside the physical range (oxygen
\* saturation -5, a negative heart rate) submitted for a known patient is
\* rejected with a ValidationError and the step changes nothing: no
\* vital-signs record is stored, no case is created, nothing is broadcast
\* and no timer is armed.
OutOfRange(m) ==
  \/ (m.oxygenSaturation.present /\ m.oxygenSaturation.value = -5)
  \/ (m.heartRate.present /\ m.heartRate.value < 0)

IsHeartRateAlert(al) == al.parameter = "heartRate"

HeartRateAlertsOf(v) == SelectSeq(vitals[v].alerts, IsHeartRateAlert)

C24_HeartRateBands ==
  \A v \in 1..Len(vitals) :
    vitals[v].measurements.heartRate.present
    => LET hr == vitals[v].measurements.heartRate.value
           found == HeartRateAlertsOf(v)
       IN IF hr < 40 \/ hr > 150
            THEN Len(found) = 1 /\ found[1].severity = "critical"
          ELSE IF hr >= 60 /\ hr <= 100
            THEN found = <<>>
          ELSE Len(found) = 1 /\ found[1].type = "warning"
                 /\ found[1].severity # "critical"

\* C25: the active-cases query returns exactly the open cases that match
\* every given filter, and a case that is resolved or marked false alarm
\* is in no result of the query from then on.
Matches(a, f) ==
  /\ f.severity # NoFilter => alerts[a].severity = f.severity
  /\ f.priority # NoFilter => alerts[a].priority = f.priority
  /\ f.assignedTo # NoUser => alerts[a].assignedTo = f.assignedTo

C25_ActiveCasesQuery ==
  [][\A f \in Filters :
       /\ getActiveAlerts(f)' = {a \in 1..Len(alerts') :
                                   alerts'[a].status \in OpenStatuses /\ Matches(a, f)'}
       /\ \A a \in 1..Len(alerts) :
            alerts[a].status \in TerminalStatuses => a \notin getActiveAlerts(f)']_vars

\* C26: an acknowledgeAlert and a resolveAlert that overlapped on a case
\* whose timers never fired leave the case (status, acknowledgment list,
\* escalation level, escalatedAt, metrics) as one of the two serial orders
\* of the same calls would, with no timer of the case pending.
AckDoc(doc, u, t) ==
  [doc EXCEPT !.acknowledgedBy = pushAck(@, [user |-> u, acknowledgedAt |-> t]),
              !.status = IF ackSetsStatus(doc.status) THEN "acknowledged" ELSE @]

ResolveDoc(doc, u, o, t) ==
  [doc EXCEPT !.status = "resolved",
              !.resolution = [resolvedAt |-> t, resolvedBy |-> u, outcome |-> o],
              !.metrics = [responseTime |-> responseTimeOf(doc),
                           resolutionTime |-> t - doc.createdAt,
                           escalationCount |-> Len(doc.escalatedAt),
                           falseAlarm |-> (o = "false_alarm")]]

CaseView(doc) ==
  <<doc.status, doc.acknowledgedBy, doc.level, doc.escalatedAt, doc.metrics>>

NoCallbackRan(a) ==
  \A l \in Levels : timers[<<a, l>>] \in {"none", "armed", "cancelled"}

C26_AckResolveSerializable ==
  \A i, j \in Slots :
    ( /\ calls[i].op = "acknowledge" /\ calls[i].pc = "done"
      /\ calls[i].result = "success"
      /\ calls[j].op = "resolve" /\ calls[j].pc = "done"
      /\ calls[j].result = "success"
      /\ calls[i].alert = calls[j].alert
      /\ NoCallbackRan(calls[i].alert) )
    => LET a == calls[i].alert
           d0 == [alerts[a] EXCEPT !.status = "active", !.acknowledgedBy = <<>>,
                                   !.resolution = NoResolution, !.metrics = NoMetrics]
           ackAt == alerts[a].acknowledgedBy[1].acknowledgedAt
           resolvedAt == alerts[a].resolution.resolvedAt
           ackThenResolve ==
             ResolveDoc(AckDoc(d0, calls[i].user, ackAt),
                        calls[j].user, calls[j].outcome, resolvedAt)
           resolveThenAck ==
             AckDoc(ResolveDoc(d0, calls[j].user, calls[j].outcome, resolvedAt),
                    calls[i].user, ackAt)
       IN /\ CaseView(alerts[a]) \in {CaseView(ackThenResolve), CaseView(resolveThenAck)}
          /\ KeysOf(a) = {}

\* C27: the acknowledgment events of a case's timeline are in the order in
\* which the acknowledgments were saved: when the event of user u precedes
\* the event of user v, the acknowledgment of u was saved before that of v
\* (for users who acknowledged once).
SavedAcks(doc, u) ==
  {n \in 1..Len(doc.acknowledgedBy) : doc.acknowledgedBy[n].user = u}

AckEvents(doc, u) ==
  {x \in 1..Len(doc.timeline) :
     doc.timeline[x].event = "Alert acknowledged" /\ doc.timeline[x].arg = u}

C27_TimelineFollowsCommitOrder ==
  \A a \in 1..Len(alerts) : \A u, v \in Users :
    ( /\ u # v
      /\ Cardinality(SavedAcks(alerts[a], u)) = 1
      /\ Cardinality(SavedAcks(alerts[a], v)) = 1 )
    => \A x \in AckEvents(alerts[a], u), y \in AckEvents(alerts[a], v) :
         x < y => \A n \in SavedAcks(alerts[a], u), k \in SavedAcks(alerts[a], v) : n < k

\* C28: the status of a case only moves forward along active,
\* acknowledged, responding, then resolved or false_alarm: no step, the
\* save of a stale copy included, takes a terminal case back to an open
\* status or an acknowledged or responding case back to an earlier one.
StatusRank(st) ==
  CASE st = "active" -> 1
    [] st = "acknowledged" -> 2
    [] st = "responding" -> 3
    [] OTHER -> 4

C28_StatusMovesForward ==
  [][\A a \in 1..Len(alerts) :
       /\ StatusRank(alerts'[a].status) >= StatusRank(alerts[a].status)
       /\ alerts[a].status \in TerminalStatuses
            => alerts'[a].status = alerts[a].status]_vars

\* C29: when recordVitalSigns handles a critical reading of a patient who
\* has an open case, the step that follows the stored reading adds no case:
\* it appends to the timeline of an open case of the patient and leaves
\* the status and the escalation level of every case as they were.
C29_CriticalReadingAttaches ==
  [][\A i \in Slots :
       ( /\ calls[i].op = "record" /\ calls[i].pc = "trigger"
         /\ calls'[i] # calls[i]
         /\ OpenCasesOf(calls[i].patient) # {} )
       => /\ Len(alerts') = Len(alerts)
          /\ \E a \in OpenCasesOf(calls[i].patient) :
               Len(alerts'[a].timeline) > Len(alerts[a].timeline)
          /\ \A a \in 1..Len(alerts) :
               /\ alerts'[a].status = alerts[a].status
               /\ alerts'[a].level = alerts[a].level]_vars

\* C30: status and escalation level are independent: a step of a timer
\* callback (escalateAlert) changes no case's status or acknowledgment
\* list, and a step of createEmergencyAlert (responder assignment
\* included), acknowledgeAlert or resolveAlert changes no case's escalation
\* level or escalatedAt list.
TimerStep == calls' = calls /\ timers' # timers

HandlerStep ==
  \E i \in Slots :
    /\ calls'[i] # calls[i]
    /\ calls'[i].op \in {"create", "acknowledge", "resolve"}

C30_StatusAndLevelIndependent ==
  [][\A a \in 1..Len(alerts) :
       /\ TimerStep => /\ alerts'[a].status = alerts[a].status
                       /\ alerts'[a].acknowledgedBy = alerts[a].acknowledgedBy
       /\ HandlerStep => /\ alerts'[a].level = alerts[a].level
                         /\ alerts'[a].escalatedAt = alerts[a].escalatedAt]_vars

C30_Witness ==
  \E a \in 1..Len(alerts) :
    /\ alerts[a].status = "acknowledged" /\ Len(alerts[a].acknowledgedBy) >= 1
    /\ alerts[a].level >= 2 /\ Len(alerts[a].escalatedAt) >= 1
    /\ alerts[a].assignedTo # NoUser
    /\ HasEvent(alerts[a], "Alert acknowledged")
    /\ HasEvent(alerts[a], "Alert escalated")

\* C31: every stored reading whose systolic value is below 70 or above 180,
\* or whose diastolic value is below 40 or above 120, carries exactly one
\* blood-pressure alert and that alert is critical.
IsBloodPressureAlert(al) == al.parameter = "bloodPressure"

BloodPressureAlertsOf(v) == SelectSeq(vitals[v].alerts, IsBloodPressureAlert)

BPCritical(bp) ==
  bp.systolic < 70 \/ bp.systolic > 180 \/ bp.diastolic < 40 \/ bp.diastolic > 120

C31_BloodPressureJointCritical ==
  \A v \in 1..Len(vitals) :
    LET bp == vitals[v].measurements.bloodPressure IN
      (bp.present /\ BPCritical(bp))
      => /\ Len(BloodPressureAlertsOf(v)) = 1
         /\ BloodPressureAlertsOf(v)[1].severity = "critical"

\* C32: every stored reading whose blood pressure is in no critical band
\* but has systolic outside 90..140 or diastolic outside 60..90 carries one
\* blood-pressure alert of warning level.
C32_BloodPressureWarning ==
  \A v \in 1..Len(vitals) :
    LET bp == vitals[v].measurements.bloodPressure IN
      ( /\ bp.present /\ ~BPCritical(bp)
        /\ (bp.systolic < 90 \/ bp.systolic > 140
               \/ bp.diastolic < 60 \/ bp.diastolic > 90) )
      => /\ Len(BloodPressureAlertsOf(v)) = 1
         /\ BloodPressureAlertsOf(v)[1].type = "warning"

\* C33: the respiratory-rate alerts of every stored reading follow the
\* bands: critical below 8 or above 30, warning outside 12..20 otherwise,
\* none within 12..20; and a reading with a critical respiratory rate is
\* an emergency.
IsRespiratoryRateAlert(al) == al.parameter = "respiratoryRate"

RespiratoryRateAlertsOf(v) == SelectSeq(vitals[v].alerts, IsRespiratoryRateAlert)

C33_RespiratoryRateBands ==
  \A v \in 1..Len(vitals) :
    vitals[v].measurements.respiratoryRate.present
    => LET rr == vitals[v].measurements.respiratoryRate.value
           found == RespiratoryRateAlertsOf(v)
       IN IF rr < 8 \/ rr > 30
            THEN /\ Len(found) = 1 /\ found[1].severity = "critical"
                 /\ vitals[v].isEmergency
          ELSE IF rr >= 12 /\ rr <= 20
            THEN found = <<>>
          ELSE Len(found) = 1 /\ found[1].type = "warning"

\* C34: every stored reading carries at most one alert per parameter; a
\* value in a parameter's critical band carries a critical alert for that
\* parameter (oxygen saturation: below 90 critical, 90..94 warning, 95 and
\* above none); an absent parameter carries no alert.
Parameters ==
  {"heartRate", "bloodPressure", "temperature", "oxygenSaturation", "respiratoryRate"}

AlertsFor(v, par) ==
  {n \in 1..Len(vitals[v].alerts) : vitals[v].alerts[n].parameter = par}

Given(m, par) == m[par].present

InCriticalBand(m, par) ==
  CASE par = "heartRate" -> m.heartRate.value < 40 \/ m.heartRate.value > 150
    [] par = "bloodPressure" -> BPCritical(m.bloodPressure)
    [] par = "temperature" -> m.temperature.value < 350 \/ m.temperature.value > 390
    [] par = "oxygenSaturation" -> m.oxygenSaturation.value < 90
    [] par = "respiratoryRate" -> m.respiratoryRate.value < 8 \/ m.respiratoryRate.value > 30

C34_OneAlertPerParameter ==
  \A v \in 1..Len(vitals) : \A par \in Parameters :
    LET m == vitals[v].measurements
        found == AlertsFor(v, par)
    IN /\ Cardinality(found) <= 1
       /\ ~Given(m, par) => found = {}
       /\ (Given(m, par) /\ InCriticalBand(m, par))
            => \E n \in found : vitals[v].alerts[n].severity = "critical"
       /\ (par = "oxygenSaturation" /\ Given(m, par) /\ ~InCriticalBand(m, par))
            => IF m.oxygenSaturation.value < 95
                 THEN \E n \in found : vitals[v].alerts[n].type = "warning"
                 ELSE found = {}

\* C35: a stored reading that carries a critical alert has the overall
\* status critical, whatever the patient's earlier readings are.
C35_CriticalReadingCriticalStatus ==
  \A v \in 1..Len(vitals) :
    vitals[v].isEmergency => vitals[v].overallStatus = "critical"

\* C36: the blood-pressure trend stored with a reading is computed from
\* the window of the patient's earlier readings: with 2 to 10 of them it is
\* worsening when the mean systolic of the 3 most recent minus the mean of
\* the 3 oldest exceeds 10, improving when it is below -10 and stable
\* otherwise; with fewer than 2 it is unknown or not reported.
WindowSystolic(v) ==
  [n \in 1..(v - 1) |-> vitals[v - n].measurements.bloodPressure.systolic]

RECURSIVE Sum(_)
Sum(seq) == IF seq = <<>> THEN 0 ELSE seq[1] + Sum(Tail(seq))

ExpectedTrend(w) ==
  LET k == IF Len(w) < 3 THEN Len(w) ELSE 3
      d == Sum(SubSeq(w, 1, k)) - Sum(SubSeq(w, Len(w) - k + 1, Len(w)))
  IN IF d > 10 * k THEN "worsening" ELSE IF d < -10 * k THEN "improving" ELSE "stable"

C36_BloodPressureTrend ==
  \A i \in Slots :
    (calls[i].op = "record" /\ calls[i].vital # 0)
    => LET v == calls[i].vital IN
         IF v - 1 >= 2
           THEN vitals[v].bloodPressureTrend = ExpectedTrend(WindowSystolic(v))
           ELSE vitals[v].bloodPressureTrend \in {"unknown", NotReported}

\* C38: a step that runs cancelEscalationTimers for one case leaves the
\* timers and the Map entries of every other case as they were.
C38_CancelLeavesOtherCases ==
  [][\A i \in Slots :
       CancelStep(i) =>
         \A b \in AlertIds \ {calls[i].alert} :
           /\ TimersOf(b)' = TimersOf(b)
           /\ KeysOf(b)' = KeysOf(b)]_vars

C38_Witness ==
  \E a, b \in AlertIds :
    /\ a # b
    /\ \A l \in Levels : timers[<<a, l>>] = "cancelled"
    /\ KeysOf(a) = {}
    /\ timers[<<b, 2>>] = "done"
    /\ \A l \in Levels \ {2} : timers[<<b, l>>] = "armed" /\ <<b, l>> \in KeysOf(b)

\* C37: when recordVitalSigns has returned success with emergency = true,
\* a case of that patient referencing the stored reading is in the store.
C37_EmergencyReturnedCaseExists ==
  \A i \in Slots :
    ( /\ calls[i].op = "record" /\ calls[i].pc = "done"
      /\ calls[i].result = "success" /\ calls[i].emergency )
    => \E a \in 1..Len(alerts) :
         /\ alerts[a].patient = calls[i].patient
         /\ alerts[a].vitalSigns = calls[i].vital

\* C39: no provider has two appointments in status scheduled, confirmed or
\* in_progress of which the earlier created starts within the window, 15
\* minutes before to 45 minutes after, of the later created one.
Booked(doc) == doc.status \in {"scheduled", "confirmed", "in_progress"}

====
